---- MODULE Spec2Model ----
(***************************************************************************)
(* A model of examples/models/file/calendars.py: make_calendar builds the  *)
(* column data of one month plot (the grid cells and the holiday           *)
(* highlights); the module-level script builds the twelve months of 2014.  *)
(* Python lists are sequences; Python's 0-based index i is position i + 1. *)
(***************************************************************************)
EXTENDS Integers, Sequences, FiniteSets, TLC

\* ---------------------------------------------------------------- bounds
\* years a call may name: Year2014, Year2014 + 2, .. Year2014 + 2 * YearSpan
YearSpan == 1
\* month arguments a call may pass: 0 .. MaxMonthArg (0 and 13 are not months)
MaxMonthArg == 13
\* longest us_holidays list built from HolidayPool
MaxHolidays == 2

\* ------------------------------------------------------------- constants
Year2014 == 2014
None == "None"
workday == "linen"
weekend == "lightsteelblue"
OPM == "(US-OPM)"
Blank == " "

\* calendar.day_abbr and calendar.month_name (C locale)
day_abbrs == <<"Mon", "Tue", "Wed", "Thu", "Fri", "Sat", "Sun">>
month_names == <<"", "January", "February", "March", "April", "May", "June",
                 "July", "August", "September", "October", "November", "December">>
\* calendar.mdays
mdays == <<0, 31, 28, 31, 30, 31, 30, 31, 31, 30, 31, 30, 31>>
\* datetime._DAYS_BEFORE_MONTH
DAYS_BEFORE_MONTH == <<0, 0, 31, 59, 90, 120, 151, 181, 212, 243, 273, 304, 334>>

\* ------------------------------------------------------- list primitives
At(list, i) == list[i + 1]

Repeat(x, n) == [k \in 1..n |-> x]

\* list * n
Times(list, n) == [k \in 1..(Len(list) * n) |-> list[((k - 1) % Len(list)) + 1]]

RECURSIVE Concat(_)
\* sum(lists, [])
Concat(lists) == IF lists = <<>> THEN <<>> ELSE Head(lists) \o Concat(Tail(lists))

\* list.index(x) raises ValueError when x is not in the list
index_raises(list, x) == ~(\E k \in 1..Len(list) : list[k] = x)

\* list.index(x) otherwise: the position of the first x
index(list, x) ==
    (CHOOSE k \in 1..Len(list) : list[k] = x /\ \A m \in 1..(k - 1) : list[m] # x) - 1

Digits == <<"0", "1", "2", "3", "4", "5", "6", "7", "8", "9">>

RECURSIVE str(_)
\* str(n) of a non-negative int: its decimal digits
str(n) == IF n < 10 THEN At(Digits, n) ELSE str(n \div 10) \o At(Digits, n % 10)

\* ------------------------------------------------------ calendar, datetime
isleap(year) == year % 4 = 0 /\ (year % 100 # 0 \/ year % 400 = 0)

days_before_year(year) ==
    LET y == year - 1 IN y * 365 + (y \div 4) - (y \div 100) + (y \div 400)

days_before_month(year, month) ==
    At(DAYS_BEFORE_MONTH, month) + (IF month > 2 /\ isleap(year) THEN 1 ELSE 0)

\* date.toordinal()
toordinal(date) ==
    days_before_year(date.year) + days_before_month(date.year, date.month) + date.day

\* date.weekday(): 0 is Monday
date_weekday(date) == (toordinal(date) + 6) % 7

\* date.replace(day=d)
replace_day(date, d) == [date EXCEPT !.day = d]

\* monthrange with the lower end of the month check off by one
monthrange_raises_from0(year, month) == ~(0 <= month /\ month <= 12)

\* calendar.monthrange raises IllegalMonthError outside 1..12
monthrange_raises(year, month) == ~(1 <= month /\ month <= 12)

\* calendar.monthrange otherwise: (day1, ndays)
monthrange(year, month) ==
    <<date_weekday([year |-> year, month |-> month, day |-> 1]),
      At(mdays, month) + (IF month = 2 /\ isleap(year) THEN 1 ELSE 0)>>

\* itermonthdays that stops one day short of the end of the month
itermonthdays_short(firstweekday, year, month) ==
    LET day1 == monthrange(year, month)[1]
        ndays == monthrange(year, month)[2]
        days_before == (day1 - firstweekday) % 7
        days_after == (firstweekday - day1 - ndays) % 7
    IN  Repeat(0, days_before) \o [d \in 1..(ndays - 1) |-> d] \o Repeat(0, days_after + 1)

\* itermonthdays that does not pad the last week
itermonthdays_nopad(firstweekday, year, month) ==
    LET day1 == monthrange(year, month)[1]
        ndays == monthrange(year, month)[2]
        days_before == (day1 - firstweekday) % 7
    IN  Repeat(0, days_before) \o [d \in 1..ndays |-> d]

\* Calendar(firstweekday).itermonthdays(year, month), for a month in 1..12
itermonthdays(firstweekday, year, month) ==
    LET day1 == monthrange(year, month)[1]
        ndays == monthrange(year, month)[2]
        days_before == (day1 - firstweekday) % 7
        days_after == (firstweekday - day1 - ndays) % 7
    IN  Repeat(0, days_before) \o [d \in 1..ndays |-> d] \o Repeat(0, days_after)

\* ----------------------------------------------------------- summaries
\* A summary is a string seen as its sequence of tokens: words, blanks and
\* the "(US-OPM)" marker.
contains(summary, token) == \E k \in 1..Len(summary) : summary[k] = token

\* summary.replace(token, "")
replace(summary, token) == SelectSeq(summary, LAMBDA t : t # token)

RECURSIVE lstrip(_)
lstrip(summary) ==
    IF summary # <<>> /\ Head(summary) = Blank THEN lstrip(Tail(summary)) ELSE summary

RECURSIVE rstrip(_)
rstrip(summary) ==
    IF summary # <<>> /\ summary[Len(summary)] = Blank
    THEN rstrip(SubSeq(summary, 1, Len(summary) - 1))
    ELSE summary

\* summary.strip()
strip(summary) == rstrip(lstrip(summary))

\* ---------------------------------------------------------- make_calendar
\* the nested function weekday(date), closed over firstweekday
weekday(date, firstweekday) == (date_weekday(date) - firstweekday) % 7

\* pick_weekdays that forgets the rotation
pick_weekdays_unrotated(days, firstweekday) ==
    [k \in 1..7 |-> At(days, (k - 1) % 7)]

\* the nested function pick_weekdays(days), closed over firstweekday
pick_weekdays(days, firstweekday) ==
    [k \in 1..7 |-> At(days, (firstweekday + k - 1) % 7)]

\* month_days: None for a padding cell, else the day's decimal text
month_days_of(firstweekday, year, month) ==
    LET it == itermonthdays(firstweekday, year, month)
    IN  [k \in 1..Len(it) |-> IF it[k] = 0 THEN None ELSE str(it[k])]

\* the weeks column numbered from 1
source_weeks_from1(month_weeks) ==
    Concat([week \in 1..month_weeks |-> Repeat(str(week), 7)])

\* the weeks column of source
source_weeks(month_weeks) ==
    Concat([week \in 1..month_weeks |-> Repeat(str(week - 1), 7)])

\* the day_backgrounds column built from the list that was not rotated
source_day_backgrounds_unrotated(week_days, month_weeks) ==
    Concat(Repeat(Repeat(workday, 5) \o Repeat(weekend, 2), month_weeks))

\* the day_backgrounds column of source
source_day_backgrounds(week_days, month_weeks) ==
    Concat(Repeat(week_days, month_weeks))

\* the holidays list filtered on the year only
holidays_of_anymonth(year, month, us_holidays) ==
    LET keep(h) == h.date.year = year /\ contains(h.summary, OPM)
        kept == SelectSeq(us_holidays, keep)
    IN  [k \in 1..Len(kept) |->
            [date |-> kept[k].date, summary |-> strip(replace(kept[k].summary, OPM))]]

\* the holidays list: (date, cleaned summary) of the OPM entries of the month
holidays_of(year, month, us_holidays) ==
    LET keep(h) == h.date.year = year /\ h.date.month = month /\ contains(h.summary, OPM)
        kept == SelectSeq(us_holidays, keep)
    IN  [k \in 1..Len(kept) |->
            [date |-> kept[k].date, summary |-> strip(replace(kept[k].summary, OPM))]]

\* one entry of holidays_weeks
holiday_week(date, firstweekday) ==
    str((weekday(replace_day(date, 1), firstweekday) + date.day) \div 7)

\* the exception the call raises, or None
make_calendar_raises(year, month, firstweekday) ==
    IF index_raises(day_abbrs, firstweekday) THEN "ValueError"
    ELSE IF monthrange_raises(year, month) THEN "IllegalMonthError"
    ELSE None

\* the plot a call that does not raise returns
make_calendar(year, month, firstweekday_name, us_holidays) ==
    LET firstweekday == index(day_abbrs, firstweekday_name)
        month_days == month_days_of(firstweekday, year, month)
        month_weeks == Len(month_days) \div 7
        day_names == pick_weekdays(day_abbrs, firstweekday)
        week_days == pick_weekdays(Repeat(workday, 5) \o Repeat(weekend, 2), firstweekday)
        holidays == holidays_of(year, month, us_holidays)
    IN  [ title |-> At(month_names, month),
          source |->
            [ days |-> Times(day_names, month_weeks),
              weeks |-> source_weeks(month_weeks),
              month_days |-> month_days,
              day_backgrounds |-> source_day_backgrounds(week_days, month_weeks) ],
          holidays_source |->
            [ holidays_days |->
                [k \in 1..Len(holidays) |-> At(day_names, weekday(holidays[k].date, firstweekday))],
              holidays_weeks |->
                [k \in 1..Len(holidays) |-> holiday_week(holidays[k].date, firstweekday)],
              month_holidays |-> [k \in 1..Len(holidays) |-> holidays[k].summary] ],
          xdr |-> day_names,
          ydr |-> [k \in 1..month_weeks |-> str(month_weeks - k)] ]

\* ------------------------------------------------------------- the inputs
\* every other year from 2014 on, so that a leap year (2016) is among them
Years == {Year2014 + 2 * k : k \in 0..YearSpan}
MonthArgs == 0..MaxMonthArg
WeekdayArgs == {day_abbrs[k] : k \in 1..7} \cup {"Xyz"}

Date(y, m, d) == [year |-> y, month |-> m, day |-> d]

\* entries that exercise the filter and the placement: two marked dates of
\* March 2014 (the 31st is its last day), and an entry without the marker
HolidayPool ==
    { [date |-> Date(Year2014, 3, 17), summary |-> <<"Holiday", Blank, "X", Blank, OPM>>],
      [date |-> Date(Year2014, 3, 31), summary |-> <<OPM, Blank, "Last">>],
      [date |-> Date(Year2014, 3, 17), summary |-> <<"Other", Blank, "source">>] }

\* the us_holidays data sets considered: every list of distinct entries of
\* the pool, up to MaxHolidays
HolidayLists ==
    UNION { {list \in [1..k -> HolidayPool] :
                \A i, j \in 1..k : i # j => list[i] # list[j]} : k \in 0..MaxHolidays }

\* --------------------------------------------------------------- the state
VARIABLES
    us_holidays,   \* bokeh.sampledata.us_holidays: list of (date, summary)
    months,        \* the rows of plots the script has built so far, by title
    args,          \* the arguments of the latest call of make_calendar
    raised,        \* the exception the latest call raised, or None
    plot           \* what the latest call returned: <<the plot>>, or <<>> when it raised

vars == <<us_holidays, months, args, raised, plot>>

NoArgs == [year |-> 0, month |-> 0, firstweekday |-> None]

Init ==
    /\ us_holidays \in HolidayLists
    /\ months = <<>>
    /\ args = NoArgs
    /\ raised = None
    /\ plot = <<>>

\* the number of plots in months
Built == IF months = <<>> THEN 0 ELSE 3 * (Len(months) - 1) + Len(months[Len(months)])

\* one call make_calendar(2014, 3*i + j + 1) of the comprehension at module level
MonthsStep ==
    /\ Built < 12
    /\ LET i == Built \div 3
           j == Built % 3
           p == make_calendar(Year2014, 3 * i + j + 1, "Mon", us_holidays)
       IN  /\ args' = [year |-> Year2014, month |-> 3 * i + j + 1, firstweekday |-> "Mon"]
           /\ raised' = None
           /\ plot' = <<p>>
           /\ months' = IF j = 0 THEN Append(months, <<p.title>>)
                        ELSE [months EXCEPT ![i + 1] = Append(@, p.title)]
    /\ UNCHANGED us_holidays

\* a call of make_calendar by a user of the imported module
MakeCalendarCall ==
    /\ Built = 12
    /\ \E year \in Years, month \in MonthArgs, firstweekday \in WeekdayArgs :
        /\ args' = [year |-> year, month |-> month, firstweekday |-> firstweekday]
        /\ raised' = make_calendar_raises(year, month, firstweekday)
        /\ plot' = IF make_calendar_raises(year, month, firstweekday) = None
                   THEN <<make_calendar(year, month, firstweekday, us_holidays)>>
                   ELSE <<>>
    /\ UNCHANGED <<us_holidays, months>>

Next == MonthsStep \/ MakeCalendarCall

Spec == Init /\ [][Next]_vars

\* ------------------------------------------------- the terms of the claims
\* These are written from the calendar itself, not from the code above.
WeekdayNames == <<"Mon", "Tue", "Wed", "Thu", "Fri", "Sat", "Sun">>
DayText == <<"1", "2", "3", "4", "5", "6", "7", "8", "9", "10",
             "11", "12", "13", "14", "15", "16", "17", "18", "19", "20",
             "21", "22", "23", "24", "25", "26", "27", "28", "29", "30", "31">>
WeekText == <<"0", "1", "2", "3", "4", "5", "6">>

LeapYear(y) == (y % 4 = 0 /\ y % 100 # 0) \/ y % 400 = 0

DaysInMonth(y, m) ==
    IF m = 2 THEN (IF LeapYear(y) THEN 29 ELSE 28)
    ELSE IF m \in {4, 6, 9, 11} THEN 30 ELSE 31

\* the weekday of a date, 0 for Monday (Sakamoto's method)
RealWeekday(y, m, d) ==
    LET t == <<0, 3, 2, 5, 0, 3, 5, 1, 4, 6, 2, 4>>
        yy == IF m < 3 THEN y - 1 ELSE y
        sunday0 == (yy + (yy \div 4) - (yy \div 100) + (yy \div 400) + t[m] + d) % 7
    IN  (sunday0 + 6) % 7

\* the latest call returned a plot
Called == plot # <<>>
Grid == plot[1].source
Highlights == plot[1].holidays_source
\* the configured first weekday, 0 for Monday
FirstCol == CHOOSE c \in 0..6 : WeekdayNames[c + 1] = args.firstweekday
LeadingBlanks == (RealWeekday(args.year, args.month, 1) - FirstCol) % 7
WeekCount == (LeadingBlanks + DaysInMonth(args.year, args.month) + 6) \div 7
\* the positions of the cells that show day d
CellsOfDay(d) == {c \in 1..Len(Grid.month_days) : Grid.month_days[c] = DayText[d]}
SameLengths ==
    /\ Len(Grid.days) = Len(Grid.month_days)
    /\ Len(Grid.weeks) = Len(Grid.month_days)
    /\ Len(Grid.day_backgrounds) = Len(Grid.month_days)

\* C2: the non-blank month_days of the grid are the days 1..daysInMonth of
\* the month, each once and in increasing order; February 2014 has no 29.
C2_DaysOfMonth ==
    Called =>
        /\ SelectSeq(Grid.month_days, LAMBDA x : x # None)
             = [d \in 1..DaysInMonth(args.year, args.month) |-> DayText[d]]
        /\ (args.year = 2014 /\ args.month = 2) => CellsOfDay(29) = {}

\* a grid of February 2014 that does not start on Monday, and one of a leap February
C2_Witness ==
    /\ Called
    /\ args.month = 2 /\ args.firstweekday = "Wed"
    /\ (args.year = 2014 \/ CellsOfDay(29) # {})
    /\ CellsOfDay(28) # {}

\* C3: the grid has exactly 7 * weekCount cells, weekCount being
\* ceil((leading blanks + days in month) / 7) and leading blanks
\* (weekday of the 1st - firstWeekday) mod 7; so its length is a multiple of
\* 7 and fewer than 7 blanks trail the last day.
C3_GridLength ==
    Called =>
        /\ SameLengths
        /\ Len(Grid.month_days) = 7 * WeekCount
        /\ Len(Grid.month_days) % 7 = 0
        /\ Len(Grid.month_days) - LeadingBlanks - DaysInMonth(args.year, args.month) \in 0..6

\* a six-week grid with leading and trailing blanks
C3_Witness ==
    /\ Called
    /\ Len(Grid.month_days) = 42
    /\ Grid.month_days[1] = None
    /\ Grid.month_days[42] = None

\* C4: the cell of day d carries the name of the real weekday of that date,
\* which is the name at position (weekday(d) - firstWeekday) mod 7 of the
\* rotated weekday list, and the first cell carries the firstWeekday name.
C4_WeekdayLabels ==
    Called =>
        /\ SameLengths
        /\ Grid.days[1] = args.firstweekday
        /\ \A d \in 1..DaysInMonth(args.year, args.month) :
            /\ CellsOfDay(d) # {}
            /\ \A c \in CellsOfDay(d) :
                LET wd == RealWeekday(args.year, args.month, d)
                    rotated == [k \in 1..7 |-> WeekdayNames[((FirstCol + k - 1) % 7) + 1]]
                IN  /\ Grid.days[c] = WeekdayNames[wd + 1]
                    /\ Grid.days[c] = rotated[((wd - FirstCol) % 7) + 1]

\* March 2014 with "Mon": a blank "Mon" cell first, day 1 in the "Sat" column
C4_Witness ==
    /\ Called
    /\ args = [year |-> 2014, month |-> 3, firstweekday |-> "Mon"]
    /\ Grid.month_days[1] = None /\ Grid.days[1] = "Mon"
    /\ \E c \in CellsOfDay(1) : Grid.days[c] = "Sat"

\* C5: the cell at 0-based position p has week index p div 7, so the week
\* indices are 0..weekCount-1, non-decreasing, seven cells each, and day 1
\* is in week 0.
C5_WeekIndex ==
    Called =>
        /\ SameLengths
        /\ \A c \in 1..Len(Grid.weeks) : Grid.weeks[c] = WeekText[((c - 1) \div 7) + 1]
        /\ \A w \in 0..(WeekCount - 1) :
            Cardinality({c \in 1..Len(Grid.weeks) : Grid.weeks[c] = WeekText[w + 1]}) = 7
        /\ \A c \in CellsOfDay(1) : Grid.weeks[c] = "0"

\* a grid of six weeks whose day 1 is in the last column of week 0
C5_Witness ==
    /\ Called
    /\ Len(Grid.weeks) = 42
    /\ Grid.weeks[42] = "5"
    /\ Grid.month_days[7] = "1"

\* the entries of us_holidays in the month of the call
InMonth(h) == h.date.year = args.year /\ h.date.month = args.month
\* the entries whose summary has the "(US-OPM)" marker
Marked(h) == \E k \in 1..Len(h.summary) : h.summary[k] = "(US-OPM)"
\* the entries make_calendar highlights
Kept == SelectSeq(us_holidays, LAMBDA h : InMonth(h) /\ Marked(h))
\* a summary without its marker and without the blanks around it
CleanLabel(summary) ==
    LET rest == SelectSeq(summary, LAMBDA t : t # "(US-OPM)")
        solid == {k \in 1..Len(rest) : rest[k] # " "}
    IN  IF solid = {} THEN <<>>
        ELSE SubSeq(rest, CHOOSE k \in solid : \A m \in solid : k <= m,
                          CHOOSE k \in solid : \A m \in solid : k >= m)
HighlightLengths ==
    /\ Len(Highlights.holidays_days) = Len(Highlights.month_holidays)
    /\ Len(Highlights.holidays_weeks) = Len(Highlights.month_holidays)

\* C1: for every annotated date of the month, the (weekdayLabel, weekIndex)
\* of its highlight equals the (weekdayLabel, weekIndex) of the grid cell
\* that shows the date's day, dates in the last column included.
C1_HighlightOnCell ==
    Called =>
        /\ Len(Highlights.holidays_days) = Len(Kept)
        /\ HighlightLengths
        /\ \A k \in 1..Len(Kept) : \A c \in CellsOfDay(Kept[k].date.day) :
            /\ Highlights.holidays_days[k] = Grid.days[c]
            /\ Highlights.holidays_weeks[k] = Grid.weeks[c]

\* C6 as stated: the cells with the weekend background are exactly those of
\* the last two names of the rotated weekday list, the others have the
\* workday background.
C6_WeekendLastTwoColumns ==
    Called =>
        LET rotated == [k \in 1..7 |-> WeekdayNames[((FirstCol + k - 1) % 7) + 1]]
        IN  /\ SameLengths
            /\ \A c \in 1..Len(Grid.days) :
                /\ Grid.day_backgrounds[c] \in {"lightsteelblue", "linen"}
                /\ Grid.day_backgrounds[c] = "lightsteelblue"
                     <=> Grid.days[c] \in {rotated[6], rotated[7]}

\* C6 amended: the cells with the weekend background are exactly those
\* labelled "Sat" or "Sun", whichever columns the rotation puts them in, the
\* others have the workday background.
C6_WeekendSatSun ==
    Called =>
        /\ SameLengths
        /\ \A c \in 1..Len(Grid.days) :
            /\ Grid.day_backgrounds[c] \in {"lightsteelblue", "linen"}
            /\ Grid.day_backgrounds[c] = "lightsteelblue" <=> Grid.days[c] \in {"Sat", "Sun"}

\* a grid that starts on Sunday: weekend in the first and in the last column
C6_Witness ==
    /\ Called
    /\ args.firstweekday = "Sun"
    /\ Grid.days[1] = "Sun" /\ Grid.day_backgrounds[1] = "lightsteelblue"
    /\ Grid.days[6] = "Fri" /\ Grid.day_backgrounds[6] = "linen"
    /\ Grid.days[7] = "Sat" /\ Grid.day_backgrounds[7] = "lightsteelblue"

\* C7 as stated: one highlight for each entry of us_holidays whose year and
\* month are those of the call, in the order of the input, and none for the
\* other entries.
C7_FilterOnMonth ==
    Called =>
        LET wanted == SelectSeq(us_holidays, InMonth)
        IN  /\ HighlightLengths
            /\ Len(Highlights.month_holidays) = Len(wanted)
            /\ \A k \in 1..Len(wanted) :
                Highlights.holidays_days[k]
                    = WeekdayNames[RealWeekday(args.year, args.month, wanted[k].date.day) + 1]

\* C7 amended: one highlight for each entry of us_holidays whose year and
\* month are those of the call and whose summary has the "(US-OPM)" marker,
\* in the order of the input and labelled with the summary less the marker,
\* and none for the other entries.
C7_FilterOnMarkedMonth ==
    Called =>
        /\ HighlightLengths
        /\ Len(Highlights.month_holidays) = Len(Kept)
        /\ \A k \in 1..Len(Kept) :
            /\ Highlights.holidays_days[k]
                 = WeekdayNames[RealWeekday(args.year, args.month, Kept[k].date.day) + 1]
            /\ Highlights.month_holidays[k] = CleanLabel(Kept[k].summary)

\* two marked dates of the month given latest first, highlighted in that order
C7_Witness ==
    /\ Called
    /\ Len(us_holidays) = 2
    /\ us_holidays[1].date.day = 31 /\ us_holidays[2].date.day = 17
    /\ Highlights.month_holidays = << <<"Last">>, <<"Holiday", " ", "X">> >>
    /\ Highlights.holidays_days = <<"Mon", "Mon">>

\* C8: a call with a month outside 1..12 or a firstWeekday that is not one
\* of the 7 weekday names ends in an error and returns no plot; every other
\* call returns one without an error.
C8_InvalidConfig ==
    args # NoArgs =>
        LET valid == args.month \in 1..12
                       /\ args.firstweekday \in {WeekdayNames[k] : k \in 1..7}
        IN  /\ raised # "None" <=> ~valid
            /\ raised # "None" <=> plot = <<>>

\* a call with month 0 and a recognized weekday name has raised
C8_Witness ==
    /\ args.month = 0
    /\ args.firstweekday = "Sun"
    /\ raised = "IllegalMonthError"
    /\ plot = <<>>

\* C10: every highlight's weekIndex is in 0..weekCount-1, a row factor of
\* the y range, and its weekdayLabel is one of the 7 column factors of the
\* x range.
C10_HighlightInRange ==
    Called =>
        /\ HighlightLengths
        /\ \A k \in 1..Len(Highlights.holidays_weeks) :
            /\ Highlights.holidays_weeks[k] \in {WeekText[w + 1] : w \in 0..(WeekCount - 1)}
            /\ Highlights.holidays_weeks[k] \in {plot[1].ydr[r] : r \in 1..Len(plot[1].ydr)}
            /\ Highlights.holidays_days[k] \in {plot[1].xdr[x] : x \in 1..Len(plot[1].xdr)}

====
